---- MODULE Spec2Model ----
(***************************************************************************)
(* Model of src/src/typesense_server_utils.cpp: the interrupt handler,     *)
(* the node-list loader, the peering address resolver, start_raft_server   *)
(* (bootstrap, maintenance scheduler loop, peering shutdown) and           *)
(* run_server (validation, construction, the peering thread, the API loop  *)
(* and the main-thread teardown).                                          *)
(*                                                                         *)
(* Strings the code builds or parses are modelled as sequences: an         *)
(* address text is the sequence of its dot-separated numbers, a message is *)
(* the sequence of the pieces it is concatenated from.                     *)
(***************************************************************************)
EXTENDS Integers, Sequences, FiniteSets, TLC

(* ------------------------------------------------------------------ *)
(* Bounds of the model                                                  *)
(* ------------------------------------------------------------------ *)

\* The scheduler loop is explored for raft_counter values 0..MaxTick.
MaxTick == 61

\* Number of interrupt signals the environment delivers to the process.
MaxSignals == 2

(* ------------------------------------------------------------------ *)
(* Program constants                                                    *)
(* ------------------------------------------------------------------ *)

MembershipPeriod == 10
CatchupPeriod == 3
VerbosePeriod == 9
SnapshotPeriod == 60

(* ------------------------------------------------------------------ *)
(* Option<std::string>                                                  *)
(* ------------------------------------------------------------------ *)

OptionOk(v) == [ok |-> TRUE, code |-> 0, value |-> v, error |-> << >>]

OptionErr(c, m) == [ok |-> FALSE, code |-> c, value |-> "", error |-> m]

(* ------------------------------------------------------------------ *)
(* The node-list file                                                   *)
(* ------------------------------------------------------------------ *)

NodesA == "192.168.12.1:8107:8108,192.168.12.2:8107:8108"
NodesB == "192.168.12.1:8107:8108,192.168.12.3:8107:8108"

\* What the file system holds at the node-list path when it is looked at.
FileStates ==
    { [exists |-> FALSE, content |-> ""],
      [exists |-> TRUE,  content |-> ""],
      [exists |-> TRUE,  content |-> NodesA],
      [exists |-> TRUE,  content |-> NodesB] }

NodesPaths == {"", "/etc/typesense/nodes"}

fetch_file_contents(file_path, file) ==
    IF ~file.exists
    THEN OptionErr(404, <<"File does not exist at: ", file_path>>)
    ELSE OptionOk(file.content)

\* Variant: the check for empty content (line 160) is missing.
fetch_nodes_config_NoEmptyCheck(path_to_nodes, file) ==
    IF path_to_nodes # ""
    THEN LET nodes_op == fetch_file_contents(path_to_nodes, file)
         IN  IF ~nodes_op.ok
             THEN OptionErr(500,
                    <<"Error reading file containing nodes configuration: ">>
                        \o nodes_op.error)
             ELSE OptionOk(nodes_op.value)
    ELSE OptionOk("")

fetch_nodes_config(path_to_nodes, file) ==
    IF path_to_nodes # ""
    THEN LET nodes_op == fetch_file_contents(path_to_nodes, file)
         IN  IF ~nodes_op.ok
             THEN OptionErr(500,
                    <<"Error reading file containing nodes configuration: ">>
                        \o nodes_op.error)
             ELSE IF nodes_op.value = ""
                  THEN OptionErr(500,
                         <<"File containing nodes configuration is empty.">>)
                  ELSE OptionOk(nodes_op.value)
    ELSE OptionOk("")

(* ------------------------------------------------------------------ *)
(* Addresses                                                            *)
(* ------------------------------------------------------------------ *)
(* An address text "a.b.c.d" is the sequence <<a, b, c, d>> of the      *)
(* numbers between its dots; "" is << >>.  A 32-bit value is the        *)
(* sequence of its four bytes, most significant first.  in_addr.s_addr  *)
(* holds the address in network byte order, which on a little-endian    *)
(* host is the value <<d, c, b, a>>.                                    *)

Reverse4(v) == <<v[4], v[3], v[2], v[1]>>

\* ntohl on a little-endian host: the bytes swapped.
ntohl(v) == Reverse4(v)

\* butil::str2ip: 0 and the parsed s_addr for a dotted quad, -1 otherwise.
str2ip(text) ==
    IF Len(text) = 4 /\ \A i \in 1..4 : text[i] \in 0..255
    THEN [status |-> 0, s_addr |-> Reverse4(text)]
    ELSE [status |-> -1, s_addr |-> <<0, 0, 0, 0>>]

\* inet_ntoa: the dotted text of an s_addr.
inet_ntoa(s_addr) == Reverse4(s_addr)

IsZero32(v) == v = <<0, 0, 0, 0>>

is_private_ip(ip) ==
    LET b1 == ip[1]
        b2 == ip[2]
    IN  IF b1 = 10 THEN TRUE
        ELSE IF b1 = 172 /\ b2 >= 16 /\ b2 <= 31 THEN TRUE
        ELSE IF b1 = 192 /\ b2 = 168 THEN TRUE
        ELSE FALSE

\* v & mask, where mask is the 32-bit value whose leading `ones` bits are set.
RECURSIVE Pow2(_)
Pow2(n) == IF n = 0 THEN 1 ELSE 2 * Pow2(n - 1)

MaskByte(b, ones) ==
    IF ones >= 8 THEN b
    ELSE IF ones <= 0 THEN 0
    ELSE b - (b % Pow2(8 - ones))

AndMask(v, ones) ==
    <<MaskByte(v[1], ones), MaskByte(v[2], ones - 8),
      MaskByte(v[3], ones - 16), MaskByte(v[4], ones - 24)>>

\* The subnet text split at "/": a sequence of parts.  The first part is an
\* address text, the second a part [digits, value]: whether it is all digits
\* in uint32 range (StringUtils::is_uint32_t) and the number std::stoll reads.
ParseSubnet(subnet_cidr) ==
    IF subnet_cidr # << >> /\ Len(subnet_cidr) = 2
    THEN LET res == str2ip(subnet_cidr[1])
         IN  IF res.status = 0
             THEN [netip |-> res.s_addr,
                   netbits |-> IF subnet_cidr[2].digits
                               THEN subnet_cidr[2].value ELSE 0]
             ELSE [netip |-> <<0, 0, 0, 0>>, netbits |-> 0]
    ELSE [netip |-> <<0, 0, 0, 0>>, netbits |-> 0]

\* 0xFFFFFFFF << (32 - netbits), as the number of leading one bits of the
\* result.  32 - netbits is computed in uint32: for netbits > 32 it wraps to
\* a shift amount >= 32, where the shift is undefined and `undef` stands for
\* the mask the build produces.
SubnetMaskOnes(netbits, undef) ==
    IF netbits >= 1 /\ netbits <= 32 THEN netbits ELSE undef

\* The walk over the interface list of get_internal_ip, from index i.
RECURSIVE ScanInterfaces(_, _, _, _)
ScanInterfaces(ifap, i, subnet, undef) ==
    IF i > Len(ifap) THEN <<127, 0, 0, 1>>
    ELSE LET ifa == ifap[i]
         IN  IF ifa.has_addr /\ ifa.family = "AF_INET"
                /\ is_private_ip(ntohl(ifa.addr))
             THEN IF ~IsZero32(subnet.netip) /\ subnet.netbits # 0
                     /\ AndMask(ntohl(subnet.netip),
                                SubnetMaskOnes(subnet.netbits, undef))
                        # AndMask(ntohl(ifa.addr),
                                  SubnetMaskOnes(subnet.netbits, undef))
                  THEN ScanInterfaces(ifap, i + 1, subnet, undef)
                  ELSE inet_ntoa(ifa.addr)
             ELSE ScanInterfaces(ifap, i + 1, subnet, undef)

\* Variant: the subnet constraint is parsed but never applied.
get_internal_ip_IgnoresSubnet(subnet_cidr, ifap, undef) ==
    ScanInterfaces(ifap, 1, [netip |-> <<0, 0, 0, 0>>, netbits |-> 0], undef)

get_internal_ip(subnet_cidr, ifap, undef) ==
    ScanInterfaces(ifap, 1, ParseSubnet(subnet_cidr), undef)

\* Line 225: the shift amount 32 - netbits, computed in unsigned 32-bit
\* arithmetic, as its two 16-bit halves <<high, low>>.
ShiftAmount(netbits) ==
    IF netbits <= 32 THEN <<0, 32 - netbits>>
    ELSE <<65535, 65536 + 32 - netbits>>

\* Lines 219-225: the shift amounts one call of get_internal_ip evaluates
\* the mask with.  The mask is computed for every private IPv4 interface the
\* walk reaches while a constraint is set, and the walk reaches the first.
MaskShifts(subnet_cidr, ifap) ==
    LET subnet == ParseSubnet(subnet_cidr)
    IN  IF /\ ~IsZero32(subnet.netip) /\ subnet.netbits # 0
           /\ \E i \in 1..Len(ifap) :
                 /\ ifap[i].has_addr /\ ifap[i].family = "AF_INET"
                 /\ is_private_ip(ntohl(ifap[i].addr))
        THEN {ShiftAmount(subnet.netbits)}
        ELSE {}

\* One call of get_internal_ip: its inputs, the shifts it evaluated and the
\* address text it returned.
ResolveCall(subnet_cidr, ifap, undef) ==
    [called |-> TRUE, subnet |-> subnet_cidr, ifap |-> ifap,
     shifts |-> MaskShifts(subnet_cidr, ifap),
     ip |-> get_internal_ip(subnet_cidr, ifap, undef)]

\* ReplicationState::to_nodes_config: the membership descriptor built from
\* the peering endpoint, the API port and the node list.
to_nodes_config(peering_endpoint, api_port, nodes_config) ==
    [endpoint |-> peering_endpoint, api_port |-> api_port,
     nodes |-> nodes_config]

(* ------------------------------------------------------------------ *)
(* Inputs                                                               *)
(* ------------------------------------------------------------------ *)

Interface(text) == [has_addr |-> TRUE, family |-> "AF_INET",
                    addr |-> Reverse4(text)]

\* What getifaddrs can report.
IfaddrsChoices ==
    { << >>,
      <<Interface(<<8, 8, 4, 4>>), Interface(<<192, 168, 1, 7>>),
        Interface(<<10, 0, 0, 5>>)>> }

\* The mask a shift by 32 or more can leave, as a count of leading one bits.
UndefMaskOnes == 0..32

\* The masks one call can compute with: the shift is undefined only for a
\* prefix length above 32, and only then does the build's outcome matter.
UndefChoices(subnet_cidr) ==
    IF ParseSubnet(subnet_cidr).netbits > 32 THEN UndefMaskOnes ELSE {0}

\* The interface lists and subnet texts get_internal_ip is examined on.
MaxIfs == 3

ProbeInterfaces ==
    { Interface(<<8, 8, 4, 4>>), Interface(<<192, 168, 1, 7>>),
      Interface(<<10, 0, 0, 5>>), Interface(<<172, 20, 1, 1>>),
      Interface(<<172, 32, 0, 1>>),
      [has_addr |-> FALSE, family |-> "none", addr |-> <<0, 0, 0, 0>>],
      [has_addr |-> TRUE, family |-> "AF_INET6", addr |-> <<9, 0, 0, 10>>] }

ProbeIfaddrs == UNION { [1..k -> ProbeInterfaces] : k \in 0..MaxIfs }

Prefix(n) == [digits |-> TRUE, value |-> n]

ProbeSubnets ==
    { << >>,
      <<<<10, 0, 0, 0>>, Prefix(8)>>,
      <<<<10, 0, 0, 5>>, Prefix(32)>>,
      <<<<10, 0, 0, 0>>, Prefix(1)>>,
      <<<<172, 16, 0, 0>>, Prefix(12)>>,
      <<<<172, 16, 0, 0>>, Prefix(16)>>,
      <<<<192, 168, 0, 0>>, Prefix(16)>>,
      <<<<192, 168, 1, 0>>, Prefix(24)>>,
      <<<<10, 0, 0, 0>>, Prefix(0)>>,
      <<<<0, 0, 0, 0>>, Prefix(8)>>,
      <<<<10, 0, 0, 0>>, Prefix(33)>>,
      <<<<192, 168, 0, 0>>, Prefix(48)>>,
      <<<<10, 0, 0, 0>>, [digits |-> FALSE, value |-> 0]>>,
      <<<<300, 1>>, Prefix(8)>>,
      <<<<10, 0, 0, 0>>>>,
      <<<<10, 0, 0, 0>>, Prefix(8), Prefix(8)>> }

\* The command-line configurations explored: the defaults with an explicit
\* peering address, and the variations of it the startup paths depend on.
BaseConfig ==
    [ master |-> "",
      search_only_api_key |-> "",
      nodes |-> "",
      peering_address |-> <<127, 0, 0, 1>>,
      peering_port |-> 8107,
      peering_subnet |-> << >>,
      api_port |-> 8108 ]

DeprecatedMaster == "http://10.0.0.1:8108"

Subnet10 == <<<<10, 0, 0, 0>>, [digits |-> TRUE, value |-> 8]>>

Configs ==
    { BaseConfig,
      [BaseConfig EXCEPT !.master = DeprecatedMaster],
      [BaseConfig EXCEPT !.search_only_api_key = "search-key"],
      [BaseConfig EXCEPT !.master = DeprecatedMaster,
                         !.search_only_api_key = "search-key"],
      [BaseConfig EXCEPT !.nodes = "/etc/typesense/nodes"],
      [BaseConfig EXCEPT !.peering_address = <<300, 1>>],
      [BaseConfig EXCEPT !.nodes = "/etc/typesense/nodes",
                         !.peering_address = <<300, 1>>],
      [BaseConfig EXCEPT !.peering_address = << >>],
      [BaseConfig EXCEPT !.nodes = "/etc/typesense/nodes",
                         !.peering_address = << >>,
                         !.peering_subnet = Subnet10] }

(* ------------------------------------------------------------------ *)
(* State                                                                *)
(* ------------------------------------------------------------------ *)

VARIABLES
    config,             \* the parsed Config handed to run_server
    alive,              \* FALSE once exit(-1) has ended the process
    quit_raft_service,  \* the global std::atomic<bool>
    sigDisp,            \* disposition of the interrupt signal
    signals,            \* interrupt signals delivered so far
    askedToQuit,        \* brpc::IsAskedToQuit()
    pcMain,             \* position of the main thread in run_server
    pcRaft,             \* position of the peering thread
    pcIdx,              \* position of the indexing thread
    constructed,        \* objects constructed by run_server so far
    dataDirExists,      \* what directory_exists(data_dir) answered
    ret_code,           \* run_server's return value, once it has returned
    exitStatus,         \* argument of exit(), once alive is FALSE
    nodes_config_op,    \* start_raft_server's startup node list
    peering_endpoint,   \* the resolved butil::EndPoint
    listener,           \* the brpc::Server raft_server
    listen_address,     \* the endpoint raft_server was given
    lastResolve,        \* the last get_internal_ip call and its result
    replication,        \* the ReplicationState, as seen through its calls
    raft_counter,       \* the scheduler's tick counter
    lastIter,           \* what the last pass through the loop body did
    lastFetch,          \* the last fetch_nodes_config call and its result
    server,             \* the HttpServer's run loop
    indexerStop,        \* batch_indexer->stop() was called
    calls,              \* teardown calls made so far, in order
    everQuit,           \* quit_raft_service has been true at some time
    itersSinceQuit,     \* loop iterations started since it first was
    refreshFailed       \* a periodic node-list re-read has failed

vars == <<config, alive, quit_raft_service, sigDisp, signals, askedToQuit,
          pcMain, pcRaft, pcIdx, constructed, dataDirExists, ret_code,
          exitStatus, nodes_config_op, peering_endpoint, listener,
          listen_address, lastResolve, replication, raft_counter, lastIter,
          lastFetch, server, indexerStop, calls, everQuit, itersSinceQuit,
          refreshFailed>>

envVars == <<quit_raft_service, sigDisp, signals, askedToQuit, everQuit>>

mainVars == <<pcMain, constructed, dataDirExists, ret_code>>

raftVars == <<pcRaft, nodes_config_op, peering_endpoint, listener,
              listen_address, lastResolve, replication, raft_counter,
              lastIter, lastFetch, itersSinceQuit, refreshFailed>>

raftVars_but_resolve ==
    <<pcRaft, nodes_config_op, peering_endpoint, listener, listen_address,
      replication, raft_counter, lastIter, lastFetch, itersSinceQuit,
      refreshFailed>>

NoEndpoint == [ip |-> << >>, port |-> 0]

NoMembership == to_nodes_config(NoEndpoint, 0, "")

NoIter == [t |-> -1, fetch |-> "none", content |-> "", push |-> FALSE,
           catchup |-> FALSE, verbose |-> FALSE, snapshot |-> FALSE,
           inc |-> FALSE, slept |-> FALSE]

NoFetch == [called |-> FALSE, path |-> "",
            file |-> [exists |-> FALSE, content |-> ""], op |-> OptionOk("")]

NoResolve == [called |-> FALSE, subnet |-> << >>, ifap |-> << >>,
              shifts |-> {}, ip |-> << >>]

\* The interrupt handler is installed by main() before run_server is called.
SigDispAtStart == "handler"

Init ==
    /\ config \in Configs
    /\ alive = TRUE
    /\ quit_raft_service = FALSE
    /\ sigDisp = SigDispAtStart
    /\ signals = 0
    /\ askedToQuit = FALSE
    /\ pcMain = "m_entry"
    /\ pcRaft = "r_none"
    /\ pcIdx = "i_none"
    /\ constructed = {}
    /\ dataDirExists = "unknown"
    /\ ret_code = 0
    /\ exitStatus = 0
    /\ nodes_config_op = ""
    /\ peering_endpoint = NoEndpoint
    /\ listener = "none"
    /\ listen_address = NoEndpoint
    /\ lastResolve = NoResolve
    /\ replication = [state |-> "none", membership |-> NoMembership]
    /\ raft_counter = 0
    /\ lastIter = NoIter
    /\ lastFetch = NoFetch
    /\ server = [running |-> FALSE, stopped |-> FALSE, stopLost |-> FALSE]
    /\ indexerStop = FALSE
    /\ calls = << >>
    /\ everQuit = FALSE
    /\ itersSinceQuit = 0
    /\ refreshFailed = FALSE

\* The process is running: exit() was not called and main has not returned.
Running == alive /\ pcMain # "m_returned"

(* ------------------------------------------------------------------ *)
(* The environment                                                      *)
(* ------------------------------------------------------------------ *)

\* Variant: the handler stops the API server itself.
catch_interrupt_StopsServer ==
    /\ Running
    /\ signals < MaxSignals
    /\ sigDisp = "handler"
    /\ sigDisp' = "ignore"
    /\ quit_raft_service' = TRUE
    /\ everQuit' = TRUE
    /\ signals' = signals + 1
    /\ server' = [server EXCEPT !.stopped = TRUE]
    /\ UNCHANGED <<config, alive, askedToQuit, mainVars, raftVars, pcIdx,
                   exitStatus, indexerStop, calls>>

\* Lines 46-50: an interrupt signal is delivered while catch_interrupt is
\* installed.
catch_interrupt ==
    /\ Running
    /\ signals < MaxSignals
    /\ sigDisp = "handler"
    /\ sigDisp' = "ignore"
    /\ quit_raft_service' = TRUE
    /\ everQuit' = TRUE
    /\ signals' = signals + 1
    /\ UNCHANGED <<config, alive, askedToQuit, mainVars, raftVars, pcIdx,
                   exitStatus, server, indexerStop, calls>>

\* An interrupt signal is delivered while its disposition is SIG_IGN.
IgnoredInterrupt ==
    /\ Running
    /\ signals < MaxSignals
    /\ sigDisp = "ignore"
    /\ signals' = signals + 1
    /\ UNCHANGED <<config, alive, quit_raft_service, sigDisp, askedToQuit,
                   everQuit, mainVars, raftVars, pcIdx, exitStatus, server,
                   indexerStop, calls>>

\* brpc is asked to quit.
BrpcAskedToQuit ==
    /\ Running
    /\ ~askedToQuit
    /\ askedToQuit' = TRUE
    /\ UNCHANGED <<config, alive, quit_raft_service, sigDisp, signals,
                   everQuit, mainVars, raftVars, pcIdx, exitStatus, server,
                   indexerStop, calls>>

(* ------------------------------------------------------------------ *)
(* run_server: the main thread                                          *)
(* ------------------------------------------------------------------ *)

AllObjects == {"app_thread_pool", "server_thread_pool", "store", "meta_store",
               "curl", "server", "batch_indexer", "collection_manager",
               "replication_state"}

\* run_server line 368.
MainResetQuit ==
    /\ alive /\ pcMain = "m_entry"
    /\ quit_raft_service' = FALSE
    /\ pcMain' = "m_validate"
    /\ UNCHANGED <<config, alive, sigDisp, signals, askedToQuit, everQuit,
                   constructed, dataDirExists, ret_code, raftVars, pcIdx,
                   exitStatus, server, indexerStop, calls>>

\* The outcome of the startup validation, lines 370-386: the value run_server
\* returns at once, or "proceed".
\* Variant: the check of the deprecated master flag (line 376) is missing.
Validate_IgnoresMaster(dir_exists, master) ==
    IF ~dir_exists THEN "return 1" ELSE "proceed"

Validate(dir_exists, master) ==
    IF ~dir_exists THEN "return 1"
    ELSE IF master # "" THEN "return 1"
    ELSE "proceed"

MainValidate ==
    /\ alive /\ pcMain = "m_validate"
    /\ \E dir_exists \in BOOLEAN :
         /\ dataDirExists' = IF dir_exists THEN "yes" ELSE "no"
         /\ IF Validate(dir_exists, config.master) = "return 1"
            THEN pcMain' = "m_returned" /\ ret_code' = 1
            ELSE pcMain' = "m_construct" /\ UNCHANGED ret_code
    /\ UNCHANGED <<config, alive, envVars, constructed, raftVars, pcIdx,
                   exitStatus, server, indexerStop, calls>>

\* Lines 388-449: pools, stores, curl, server, indexer, collection manager,
\* replication state.
MainConstruct ==
    /\ alive /\ pcMain = "m_construct"
    /\ constructed' = AllObjects
    /\ pcMain' = "m_spawn"
    /\ UNCHANGED <<config, alive, envVars, dataDirExists, ret_code, raftVars,
                   pcIdx, exitStatus, server, indexerStop, calls>>

\* Line 451: std::thread raft_thread.
MainSpawnRaftThread ==
    /\ alive /\ pcMain = "m_spawn"
    /\ pcRaft' = "r_spawn_indexer"
    /\ pcMain' = "m_start_api"
    /\ UNCHANGED <<config, alive, envVars, constructed, dataDirExists,
                   ret_code, nodes_config_op, peering_endpoint, listener,
                   listen_address, lastResolve, replication, raft_counter,
                   lastIter, lastFetch, itersSinceQuit, refreshFailed, pcIdx,
                   exitStatus, server, indexerStop, calls>>

\* Lines 483-486: master_server_routes(), then server->run() is entered.
\* Whether a stop() made before the loop was entered is still seen by it is
\* left open.
MainRunEnter ==
    /\ alive /\ pcMain = "m_start_api"
    /\ \E lost \in BOOLEAN :
         server' = [running |-> TRUE, stopped |-> server.stopped,
                    stopLost |-> server.stopped /\ lost]
    /\ pcMain' = "m_run"
    /\ UNCHANGED <<config, alive, envVars, constructed, dataDirExists,
                   ret_code, raftVars, pcIdx, exitStatus, indexerStop, calls>>

\* server->run() returns because the server was stopped.
ApiLoopStopped ==
    /\ alive /\ pcMain = "m_run"
    /\ server.stopped /\ ~server.stopLost
    /\ server' = [server EXCEPT !.running = FALSE]
    /\ ret_code' = 0
    /\ pcMain' = "m_set_quit"
    /\ UNCHANGED <<config, alive, envVars, constructed, dataDirExists,
                   raftVars, pcIdx, exitStatus, indexerStop, calls>>

\* server->run() returns on its own (the API thread fails).
ApiLoopFails ==
    /\ alive /\ pcMain = "m_run"
    /\ server' = [server EXCEPT !.running = FALSE]
    /\ ret_code' = 1
    /\ pcMain' = "m_set_quit"
    /\ UNCHANGED <<config, alive, envVars, constructed, dataDirExists,
                   raftVars, pcIdx, exitStatus, indexerStop, calls>>

\* The position after `pc` in `order`; `after` behind its last statement.
NextIn(order, pc, after) ==
    IF \E i \in 1..(Len(order) - 1) : order[i] = pc
    THEN order[(CHOOSE i \in 1..(Len(order) - 1) : order[i] = pc) + 1]
    ELSE after

\* The teardown statements of run_server, lines 492-508, in program order,
\* each named by the position of the main thread before it.
\* Variant: the batch indexer is deleted before the peering thread is joined.
MainOrder_DeleteFirst ==
    <<"m_delete_indexer", "m_join_raft", "m_curl_cleanup", "m_delete_server",
      "m_dispose">>

MainOrder == <<"m_join_raft", "m_delete_indexer", "m_curl_cleanup",
               "m_delete_server", "m_dispose">>

\* Line 491.
MainSetQuit ==
    /\ alive /\ pcMain = "m_set_quit"
    /\ quit_raft_service' = TRUE
    /\ everQuit' = TRUE
    /\ pcMain' = MainOrder[1]
    /\ UNCHANGED <<config, alive, sigDisp, signals, askedToQuit, constructed,
                   dataDirExists, ret_code, raftVars, pcIdx, exitStatus,
                   server, indexerStop, calls>>

\* One teardown step of the main thread: the call is made and logged.
MainStep(from, call) ==
    /\ alive /\ pcMain = from
    /\ calls' = Append(calls, call)
    /\ pcMain' = NextIn(MainOrder, from, "m_return")
    /\ UNCHANGED <<config, alive, envVars, dataDirExists, ret_code, raftVars,
                   pcIdx, exitStatus, server, indexerStop>>

\* Variant: the peering thread is detached instead of joined.
MainJoinRaft_Detached ==
    /\ MainStep("m_join_raft", "raft_thread.join")
    /\ UNCHANGED constructed

\* Line 492: raft_thread.join() returns once the peering thread has ended.
MainJoinRaft ==
    /\ pcRaft = "r_done"
    /\ MainStep("m_join_raft", "raft_thread.join")
    /\ UNCHANGED constructed

\* Line 496.
MainDeleteIndexer ==
    /\ MainStep("m_delete_indexer", "delete batch_indexer")
    /\ constructed' = constructed \ {"batch_indexer"}

\* Line 500.
MainCurlCleanup ==
    /\ MainStep("m_curl_cleanup", "curl_global_cleanup")
    /\ constructed' = constructed \ {"curl"}

\* Line 504.
MainDeleteServer ==
    /\ MainStep("m_delete_server", "delete server")
    /\ constructed' = constructed \ {"server"}

\* Line 508.
MainDispose ==
    /\ MainStep("m_dispose", "collection_manager.dispose")
    /\ constructed' = constructed \ {"collection_manager"}

\* Line 512: return ret_code (the locals are destroyed).
MainReturn ==
    /\ alive /\ pcMain = "m_return"
    /\ pcMain' = "m_returned"
    /\ constructed' = {}
    /\ UNCHANGED <<config, alive, envVars, dataDirExists, ret_code, raftVars,
                   pcIdx, exitStatus, server, indexerStop, calls>>

(* ------------------------------------------------------------------ *)
(* The peering thread: the raft_thread lambda and start_raft_server     *)
(* ------------------------------------------------------------------ *)

\* The statements of start_raft_server after the loop, lines 333-346, and of
\* the lambda after start_raft_server has returned, lines 466-480, in program
\* order, each named by the position of the thread before it.
\* Variant: the listener is stopped and joined before the replication state
\* is shut down.
ShutdownOrder_ListenerFirst ==
    <<"r_listener_stop", "r_listener_join", "r_repl_shutdown">>

ShutdownOrder == <<"r_repl_shutdown", "r_listener_stop", "r_listener_join">>

\* Variant: the pools are shut down before the indexer is stopped.
LambdaOrder_PoolsFirst ==
    <<"r_server_pool", "r_app_pool", "r_stop_indexer", "r_join_indexer",
      "r_server_stop">>

LambdaOrder == <<"r_stop_indexer", "r_join_indexer", "r_server_pool",
                 "r_app_pool", "r_server_stop">>

\* exit(-1) from the peering thread ends the whole process.
ExitProcess ==
    /\ alive' = FALSE
    /\ exitStatus' = -1
    /\ UNCHANGED <<pcRaft, nodes_config_op, peering_endpoint,
                   listen_address, lastResolve, replication>>

\* Lines 454-458: the indexing thread is spawned, the node-list path is read.
RaftSpawnIndexer ==
    /\ alive /\ pcRaft = "r_spawn_indexer"
    /\ pcIdx' = "i_running"
    /\ pcRaft' = "r_fetch_nodes"
    /\ UNCHANGED <<config, alive, envVars, mainVars, nodes_config_op,
                   peering_endpoint, listener, listen_address, lastResolve,
                   replication, raft_counter, lastIter, lastFetch,
                   itersSinceQuit, refreshFailed, exitStatus, server,
                   indexerStop, calls>>

\* Variant: a failed startup read makes start_raft_server return -1 instead
\* of ending the process.
RaftFetchNodes_Returns ==
    /\ alive /\ pcRaft = "r_fetch_nodes"
    /\ \E file \in FileStates :
         LET op == fetch_nodes_config(config.nodes, file)
         IN  /\ lastFetch' = [called |-> TRUE, path |-> config.nodes,
                              file |-> file, op |-> op]
             /\ IF ~op.ok
                THEN /\ pcRaft' = "r_stop_indexer"
                     /\ UNCHANGED nodes_config_op
                ELSE /\ nodes_config_op' = op.value
                     /\ pcRaft' = "r_resolve"
    /\ UNCHANGED <<config, alive, exitStatus, peering_endpoint, listener,
                   listen_address, lastResolve, replication, envVars,
                   mainVars, pcIdx, raft_counter, lastIter, itersSinceQuit,
                   refreshFailed, server, indexerStop, calls>>

\* Lines 248-257: the startup read of the node list; an error is fatal.
RaftFetchNodes ==
    /\ alive /\ pcRaft = "r_fetch_nodes"
    /\ \E file \in FileStates :
         LET op == fetch_nodes_config(config.nodes, file)
         IN  /\ lastFetch' = [called |-> TRUE, path |-> config.nodes,
                              file |-> file, op |-> op]
             /\ IF ~op.ok
                THEN ExitProcess /\ UNCHANGED listener
                ELSE /\ nodes_config_op' = op.value
                     /\ pcRaft' = "r_resolve"
                     /\ UNCHANGED <<alive, exitStatus, peering_endpoint,
                                    listener, listen_address, lastResolve,
                                    replication>>
    /\ UNCHANGED <<config, envVars, mainVars, pcIdx, raft_counter, lastIter,
                   itersSinceQuit, refreshFailed, server, indexerStop, calls>>

\* Lines 259-267: the peering address, explicit or from the interfaces.
ResolvePeeringIp(peering_address, peering_subnet, ifap, undef) ==
    IF peering_address # << >>
    THEN str2ip(peering_address)
    ELSE str2ip(get_internal_ip(peering_subnet, ifap, undef))

\* Lines 259-274: on a parse failure start_raft_server returns -1 and the
\* lambda goes on with its teardown.
RaftResolve ==
    /\ alive /\ pcRaft = "r_resolve"
    /\ \E ifap \in IfaddrsChoices,
          undef \in UndefChoices(config.peering_subnet) :
         LET res == ResolvePeeringIp(config.peering_address,
                                     config.peering_subnet, ifap, undef)
         IN  /\ lastResolve' =
                    IF config.peering_address # << >> THEN lastResolve
                    ELSE ResolveCall(config.peering_subnet, ifap, undef)
             /\ IF res.status # 0
                THEN /\ pcRaft' = LambdaOrder[1]
                     /\ UNCHANGED peering_endpoint
                ELSE /\ peering_endpoint' = [ip |-> inet_ntoa(res.s_addr),
                                             port |-> config.peering_port]
                     /\ pcRaft' = "r_add_service"
    /\ UNCHANGED <<config, alive, envVars, mainVars, pcIdx, nodes_config_op,
                   listener, listen_address, replication, raft_counter,
                   lastIter, lastFetch, itersSinceQuit, refreshFailed,
                   exitStatus, server, indexerStop, calls>>

\* Lines 279-282: braft::add_service with the endpoint; a failure is fatal.
RaftAddService ==
    /\ alive /\ pcRaft = "r_add_service"
    /\ \E ok \in BOOLEAN :
         IF ~ok
         THEN ExitProcess /\ listener' = "add_failed"
         ELSE /\ listener' = "registered"
              /\ listen_address' = peering_endpoint
              /\ pcRaft' = "r_listener_start"
              /\ UNCHANGED <<alive, exitStatus, nodes_config_op,
                             peering_endpoint, lastResolve, replication>>
    /\ UNCHANGED <<config, envVars, mainVars, pcIdx, raft_counter, lastIter,
                   lastFetch, itersSinceQuit, refreshFailed, server,
                   indexerStop, calls>>

\* Variant: a failed Start is logged and the bootstrap goes on.
RaftListenerStart_Continues ==
    /\ alive /\ pcRaft = "r_listener_start"
    /\ \E ok \in BOOLEAN :
         /\ listener' = IF ok THEN "started" ELSE "start_failed"
         /\ listen_address' = peering_endpoint
         /\ pcRaft' = "r_repl_start"
         /\ UNCHANGED <<alive, exitStatus, nodes_config_op,
                        peering_endpoint, lastResolve, replication>>
    /\ UNCHANGED <<config, envVars, mainVars, pcIdx, raft_counter, lastIter,
                   lastFetch, itersSinceQuit, refreshFailed, server,
                   indexerStop, calls>>

\* Lines 284-287: raft_server.Start on the endpoint; a failure is fatal.
RaftListenerStart ==
    /\ alive /\ pcRaft = "r_listener_start"
    /\ \E ok \in BOOLEAN :
         IF ~ok
         THEN ExitProcess /\ listener' = "start_failed"
         ELSE /\ listener' = "started"
              /\ listen_address' = peering_endpoint
              /\ pcRaft' = "r_repl_start"
              /\ UNCHANGED <<alive, exitStatus, nodes_config_op,
                             peering_endpoint, lastResolve, replication>>
    /\ UNCHANGED <<config, envVars, mainVars, pcIdx, raft_counter, lastIter,
                   lastFetch, itersSinceQuit, refreshFailed, server,
                   indexerStop, calls>>

\* Variant: the replication state is started on an endpoint of its own.
RaftReplStart_OtherEndpoint ==
    /\ alive /\ pcRaft = "r_repl_start"
    /\ \E ok \in BOOLEAN :
         IF ~ok
         THEN ExitProcess /\ UNCHANGED <<listener, raft_counter>>
         ELSE /\ replication' =
                    [state |-> "started",
                     membership |-> to_nodes_config(NoEndpoint,
                                        config.api_port, nodes_config_op)]
              /\ raft_counter' = 0
              /\ pcRaft' = "r_loop_check"
              /\ UNCHANGED <<alive, exitStatus, nodes_config_op,
                             peering_endpoint, listener, listen_address,
                             lastResolve>>
    /\ UNCHANGED <<config, envVars, mainVars, pcIdx, lastIter, lastFetch,
                   itersSinceQuit, refreshFailed, server, indexerStop, calls>>

\* Lines 292-304: replication_state.start with the endpoint, the API port and
\* the startup node list; then raft_counter = 0.
RaftReplStart ==
    /\ alive /\ pcRaft = "r_repl_start"
    /\ \E ok \in BOOLEAN :
         IF ~ok
         THEN ExitProcess /\ UNCHANGED <<listener, raft_counter>>
         ELSE /\ replication' =
                    [state |-> "started",
                     membership |-> to_nodes_config(peering_endpoint,
                                        config.api_port, nodes_config_op)]
              /\ raft_counter' = 0
              /\ pcRaft' = "r_loop_check"
              /\ UNCHANGED <<alive, exitStatus, nodes_config_op,
                             peering_endpoint, listener, listen_address,
                             lastResolve>>
    /\ UNCHANGED <<config, envVars, mainVars, pcIdx, lastIter, lastFetch,
                   itersSinceQuit, refreshFailed, server, indexerStop, calls>>

(* ------------------------------------------------------------------ *)
(* The maintenance scheduler loop                                       *)
(* ------------------------------------------------------------------ *)

\* Line 305: the loop condition.
RaftLoopCheck ==
    /\ alive /\ pcRaft = "r_loop_check"
    /\ IF askedToQuit \/ quit_raft_service
       THEN /\ pcRaft' = ShutdownOrder[1]
            /\ UNCHANGED itersSinceQuit
       ELSE /\ raft_counter < MaxTick
            /\ pcRaft' = "r_loop_body"
            /\ itersSinceQuit' = IF everQuit /\ itersSinceQuit < 2
                                 THEN itersSinceQuit + 1
                                 ELSE itersSinceQuit
    /\ UNCHANGED <<config, alive, envVars, mainVars, pcIdx, nodes_config_op,
                   peering_endpoint, listener, listen_address, lastResolve,
                   replication, raft_counter, lastIter, lastFetch,
                   refreshFailed, exitStatus, server, indexerStop, calls>>

\* Variant: a failed re-read is not skipped; the (empty) result is pushed.
LoopBody_PushOnFailure(t, refreshed_nodes_op) ==
    [t |-> t,
     fetch |-> IF t % MembershipPeriod = 0
               THEN (IF refreshed_nodes_op.ok THEN "ok" ELSE "fail")
               ELSE "none",
     content |-> IF t % MembershipPeriod = 0
                 THEN refreshed_nodes_op.value ELSE "",
     push |-> (t % MembershipPeriod = 0),
     catchup |-> (t % CatchupPeriod = 0),
     verbose |-> (t % CatchupPeriod = 0 /\ t % VerbosePeriod = 0),
     snapshot |-> (t % SnapshotPeriod = 0),
     inc |-> TRUE, slept |-> TRUE]

\* Lines 307-330: what one pass through the loop body does at counter value
\* t, when a re-read of the node list would give refreshed_nodes_op.  A
\* failed re-read takes the `continue` of line 312.
LoopBody(t, refreshed_nodes_op) ==
    IF t % MembershipPeriod = 0 /\ ~refreshed_nodes_op.ok
    THEN [t |-> t, fetch |-> "fail", content |-> "", push |-> FALSE,
          catchup |-> FALSE, verbose |-> FALSE, snapshot |-> FALSE,
          inc |-> FALSE, slept |-> FALSE]
    ELSE [t |-> t,
          fetch |-> IF t % MembershipPeriod = 0 THEN "ok" ELSE "none",
          content |-> IF t % MembershipPeriod = 0
                      THEN refreshed_nodes_op.value ELSE "",
          push |-> (t % MembershipPeriod = 0),
          catchup |-> (t % CatchupPeriod = 0),
          verbose |-> (t % CatchupPeriod = 0 /\ t % VerbosePeriod = 0),
          snapshot |-> (t % SnapshotPeriod = 0),
          inc |-> TRUE, slept |-> TRUE]

RaftLoopBody ==
    /\ alive /\ pcRaft = "r_loop_body"
    /\ \E file \in FileStates :
         LET op == fetch_nodes_config(config.nodes, file)
             it == LoopBody(raft_counter, op)
         IN  /\ lastIter' = it
             /\ lastFetch' = IF it.fetch # "none"
                             THEN [called |-> TRUE, path |-> config.nodes,
                                   file |-> file, op |-> op]
                             ELSE lastFetch
             /\ replication' =
                   IF it.push
                   THEN [replication EXCEPT !.membership =
                            to_nodes_config(peering_endpoint,
                                            config.api_port, it.content)]
                   ELSE replication
             /\ raft_counter' = IF it.inc THEN raft_counter + 1
                                ELSE raft_counter
             /\ refreshFailed' = (refreshFailed \/ it.fetch = "fail")
    /\ pcRaft' = "r_loop_check"
    /\ UNCHANGED <<config, alive, envVars, mainVars, pcIdx, nodes_config_op,
                   peering_endpoint, listener, listen_address, lastResolve,
                   itersSinceQuit, exitStatus, server, indexerStop, calls>>

(* ------------------------------------------------------------------ *)
(* Teardown on the peering thread                                       *)
(* ------------------------------------------------------------------ *)

\* One teardown step of the peering thread: the call is made and logged.
RaftStep(order, from, after, call) ==
    /\ alive /\ pcRaft = from
    /\ calls' = Append(calls, call)
    /\ pcRaft' = NextIn(order, from, after)
    /\ UNCHANGED <<config, alive, envVars, mainVars, nodes_config_op,
                   peering_endpoint, itersSinceQuit, refreshFailed,
                   exitStatus>>

\* Line 336.
RaftReplShutdown ==
    /\ RaftStep(ShutdownOrder, "r_repl_shutdown", LambdaOrder[1],
                "replication_state.shutdown")
    /\ replication' = [replication EXCEPT !.state = "shutdown"]
    /\ UNCHANGED <<listener, listen_address, lastResolve, pcIdx, server,
                   indexerStop, raft_counter, lastIter, lastFetch>>

\* Line 339.
RaftListenerStop ==
    /\ RaftStep(ShutdownOrder, "r_listener_stop", LambdaOrder[1],
                "raft_server.Stop")
    /\ listener' = "stopped"
    /\ UNCHANGED <<listen_address, lastResolve, replication, pcIdx, server,
                   indexerStop, raft_counter, lastIter, lastFetch>>

\* Lines 342-346: Join, then start_raft_server returns 0 and its locals
\* (the counter, and with it the record of the last pass) are gone.
RaftListenerJoin ==
    /\ RaftStep(ShutdownOrder, "r_listener_join", LambdaOrder[1],
                "raft_server.Join")
    /\ listener' = "joined"
    /\ raft_counter' = 0
    /\ lastIter' = NoIter
    /\ lastFetch' = NoFetch
    /\ UNCHANGED <<listen_address, lastResolve, replication, pcIdx, server,
                   indexerStop>>

\* Line 467.
RaftStopIndexer ==
    /\ RaftStep(LambdaOrder, "r_stop_indexer", "r_done",
                "batch_indexer.stop")
    /\ indexerStop' = TRUE
    /\ UNCHANGED <<listener, listen_address, lastResolve, replication, pcIdx,
                   server, raft_counter, lastIter, lastFetch>>

\* Lines 454-456: batch_indexer->run() returns once the indexer was stopped.
IndexerRunReturns ==
    /\ alive /\ pcIdx = "i_running"
    /\ indexerStop
    /\ pcIdx' = "i_done"
    /\ UNCHANGED <<config, alive, envVars, mainVars, raftVars, exitStatus,
                   server, indexerStop, calls>>

\* Line 470: the join returns once the indexing thread has ended.
RaftJoinIndexer ==
    /\ pcIdx = "i_done"
    /\ RaftStep(LambdaOrder, "r_join_indexer", "r_done",
                "batch_indexing_thread.join")
    /\ pcIdx' = "i_joined"
    /\ UNCHANGED <<listener, listen_address, lastResolve, replication, server,
                   indexerStop, raft_counter, lastIter, lastFetch>>

\* Line 474.
RaftShutdownServerPool ==
    /\ RaftStep(LambdaOrder, "r_server_pool", "r_done",
                "server_thread_pool.shutdown")
    /\ UNCHANGED <<listener, listen_address, lastResolve, replication, pcIdx,
                   server, indexerStop, raft_counter, lastIter, lastFetch>>

\* Line 478.
RaftShutdownAppPool ==
    /\ RaftStep(LambdaOrder, "r_app_pool", "r_done",
                "app_thread_pool.shutdown")
    /\ UNCHANGED <<listener, listen_address, lastResolve, replication, pcIdx,
                   server, indexerStop, raft_counter, lastIter, lastFetch>>

\* Line 480: server->stop(), the last statement of the lambda.
RaftServerStop ==
    /\ RaftStep(LambdaOrder, "r_server_stop", "r_done", "server.stop")
    /\ server' = [server EXCEPT !.stopped = TRUE]
    /\ UNCHANGED <<listener, listen_address, lastResolve, replication, pcIdx,
                   indexerStop, raft_counter, lastIter, lastFetch>>

(* ------------------------------------------------------------------ *)
(* The specification                                                    *)
(* ------------------------------------------------------------------ *)

Next ==
    \/ catch_interrupt
    \/ IgnoredInterrupt
    \/ BrpcAskedToQuit
    \/ MainResetQuit
    \/ MainValidate
    \/ MainConstruct
    \/ MainSpawnRaftThread
    \/ MainRunEnter
    \/ ApiLoopStopped
    \/ ApiLoopFails
    \/ MainSetQuit
    \/ MainJoinRaft
    \/ MainDeleteIndexer
    \/ MainCurlCleanup
    \/ MainDeleteServer
    \/ MainDispose
    \/ MainReturn
    \/ RaftSpawnIndexer
    \/ RaftFetchNodes
    \/ RaftResolve
    \/ RaftAddService
    \/ RaftListenerStart
    \/ RaftReplStart
    \/ RaftLoopCheck
    \/ RaftLoopBody
    \/ RaftReplShutdown
    \/ RaftListenerStop
    \/ RaftListenerJoin
    \/ RaftStopIndexer
    \/ IndexerRunReturns
    \/ RaftJoinIndexer
    \/ RaftShutdownServerPool
    \/ RaftShutdownAppPool
    \/ RaftServerStop

Spec == Init /\ [][Next]_vars

(* ------------------------------------------------------------------ *)
(* get_internal_ip on its own                                           *)
(* ------------------------------------------------------------------ *)

\* get_internal_ip is called once, with any of the subnet texts on any of
\* the interface lists.
CallGetInternalIp ==
    /\ ~lastResolve.called
    /\ \E subnet_cidr \in ProbeSubnets, ifap \in ProbeIfaddrs :
         \E undef \in UndefChoices(subnet_cidr) :
            lastResolve' = ResolveCall(subnet_cidr, ifap, undef)
    /\ UNCHANGED <<config, alive, envVars, mainVars, raftVars_but_resolve,
                   pcIdx, exitStatus, server, indexerStop, calls>>

InitIp == Init /\ config = [BaseConfig EXCEPT !.peering_address = << >>]

NextIp == CallGetInternalIp

SpecIp == InitIp /\ [][NextIp]_vars

(* ------------------------------------------------------------------ *)
(* Properties                                                           *)
(* ------------------------------------------------------------------ *)

\* The index of the first occurrence of `call` in `calls`, 0 when absent.
Pos(call) ==
    IF \E i \in 1..Len(calls) : calls[i] = call
    THEN CHOOSE i \in 1..Len(calls) :
            calls[i] = call /\ \A j \in 1..(i - 1) : calls[j] # call
    ELSE 0

\* Whenever `b` has been called, `a` was called before it.
Before(a, b) == Pos(b) # 0 => (Pos(a) # 0 /\ Pos(a) < Pos(b))

Count(call) == Cardinality({i \in 1..Len(calls) : calls[i] = call})

IsPrefix(a, b) == Len(a) <= Len(b) /\ \A i \in 1..Len(a) : a[i] = b[i]

PeeringCalls == {"replication_state.shutdown", "raft_server.Stop",
                 "raft_server.Join", "batch_indexer.stop",
                 "batch_indexing_thread.join", "server_thread_pool.shutdown",
                 "app_thread_pool.shutdown", "server.stop"}

IsPeeringCall(c) == c \in PeeringCalls

\* The teardown calls of the peering thread, in the order they were made.
RaftCalls == SelectSeq(calls, IsPeeringCall)

\* A pass through the loop body has been recorded.
InLoopPass == lastIter.t >= 0

\* The loop is done with the counter value of the last recorded pass: the
\* pass incremented the counter, or the loop was left after it.
TickOver ==
    /\ InLoopPass
    /\ lastIter.inc \/ pcRaft \notin {"r_loop_check", "r_loop_body"}

\* C1: for every counter value t the loop has run with and is done with, a
\* membership re-read was attempted iff t % 10 = 0, refresh_catchup_status
\* was called iff t % 3 = 0 with the verbose flag iff t % 9 = 0, and
\* do_snapshot was called iff t % 60 = 0; at t = 0 all three were done.
C1_TickSchedule ==
    TickOver =>
        /\ (lastIter.fetch # "none") <=> (lastIter.t % 10 = 0)
        /\ lastIter.catchup <=> (lastIter.t % 3 = 0)
        /\ lastIter.verbose <=> (lastIter.t % 9 = 0)
        /\ lastIter.snapshot <=> (lastIter.t % 60 = 0)
        /\ (lastIter.t = 0 => lastIter.catchup /\ lastIter.snapshot)

\* C2: once quit_raft_service has become true, the scheduler loop starts at
\* most one further iteration, and no teardown call is made twice.
C2_QuitEndsLoop ==
    everQuit =>
        /\ itersSinceQuit <= 1
        /\ \A c \in PeeringCalls : Count(c) <= 1

\* C3: the batch indexer is stopped and its thread joined before either
\* worker pool is shut down, both pools are shut down before the API server
\* is stopped, and the replication state is shut down before the peering
\* listener is stopped.
C3_ConsumersBeforeProducers ==
    /\ Before("batch_indexer.stop", "server_thread_pool.shutdown")
    /\ Before("batch_indexer.stop", "app_thread_pool.shutdown")
    /\ Before("batch_indexing_thread.join", "server_thread_pool.shutdown")
    /\ Before("batch_indexing_thread.join", "app_thread_pool.shutdown")
    /\ Before("server_thread_pool.shutdown", "server.stop")
    /\ Before("app_thread_pool.shutdown", "server.stop")
    /\ Before("replication_state.shutdown", "raft_server.Stop")

\* C3 witness: a complete teardown of the peering thread after the loop.
C3_Witness ==
    /\ pcRaft = "r_done"
    /\ Pos("raft_server.Stop") # 0
    /\ Pos("server.stop") # 0

\* The order of the peering thread's teardown calls in the code.
CodeOrder ==
    <<"replication_state.shutdown", "raft_server.Stop", "raft_server.Join",
      "batch_indexer.stop", "batch_indexing_thread.join",
      "server_thread_pool.shutdown", "app_thread_pool.shutdown",
      "server.stop">>

\* C4, as the claim states it: on the peering thread the indexer is stopped
\* and joined, both pools are shut down and the API server is stopped, and
\* only then the replication state is shut down and the listener stopped and
\* joined.
C4_ClaimedOrder ==
    \/ IsPrefix(RaftCalls,
         <<"batch_indexer.stop", "batch_indexing_thread.join",
           "server_thread_pool.shutdown", "app_thread_pool.shutdown",
           "server.stop", "replication_state.shutdown", "raft_server.Stop",
           "raft_server.Join">>)
    \/ IsPrefix(RaftCalls,
         <<"batch_indexer.stop", "batch_indexing_thread.join",
           "app_thread_pool.shutdown", "server_thread_pool.shutdown",
           "server.stop", "replication_state.shutdown", "raft_server.Stop",
           "raft_server.Join">>)

\* C4, amended: on the peering thread the replication state is shut down
\* and the listener stopped and joined first (inside start_raft_server), and
\* only then the indexer is stopped, its thread joined, the server pool and
\* the application pool shut down and the API server stopped; when
\* start_raft_server returned early only the last five calls are made.
C4_CodeOrder ==
    \/ IsPrefix(RaftCalls, CodeOrder)
    \/ IsPrefix(RaftCalls, SubSeq(CodeOrder, 4, 8))

\* C4 witness: all eight calls have been made.
C4_Witness == RaftCalls = CodeOrder

\* C5: quit_raft_service, once true, is never written back to false.
C5_QuitMonotonic == [][quit_raft_service => quit_raft_service']_vars

\* A step of the peering thread out of the loop body.
BodyStep == alive /\ pcRaft = "r_loop_body" /\ (pcRaft' # pcRaft \/ ~alive')

\* C6: a pass whose node-list re-read fails calls no refresh_nodes, leaves
\* the replication state's membership as it was, does not end the process
\* and goes back to the loop condition; a pass whose re-read succeeds pushes
\* the descriptor of what was read.
C6_RefreshFailureNotFatal ==
    [][BodyStep /\ raft_counter % 10 = 0 =>
         IF lastFetch'.op.ok
         THEN replication'.membership =
                to_nodes_config(peering_endpoint, config.api_port,
                                IF config.nodes = "" THEN ""
                                ELSE lastFetch'.file.content)
         ELSE /\ ~lastIter'.push
              /\ replication' = replication
              /\ alive'
              /\ pcRaft' = "r_loop_check"]_vars

\* C6 witness: after a failed re-read a later one succeeded and replaced the
\* startup membership by the new node list.
C6_Witness ==
    /\ refreshFailed
    /\ lastIter.fetch = "ok"
    /\ nodes_config_op = NodesA
    /\ replication.membership.nodes = NodesB

\* C7: a pass whose membership re-read fails still performs the catch-up
\* refresh and the snapshot that are due at its counter value.
C7_TasksIndependent ==
    (InLoopPass /\ lastIter.fetch = "fail") =>
        /\ lastIter.catchup <=> (lastIter.t % 3 = 0)
        /\ lastIter.snapshot <=> (lastIter.t % 60 = 0)

\* The startup read of the node list saw an existing, empty file.
StartupSawEmptyFile ==
    /\ lastFetch.called
    /\ ~InLoopPass
    /\ lastFetch.path # ""
    /\ lastFetch.file.exists
    /\ lastFetch.file.content = ""

\* C8, as the claim states it: with an empty node-list file startup aborts
\* before the peering thread, the indexing thread or a worker pool exists.
C8_AbortsBeforeThreads ==
    StartupSawEmptyFile =>
        /\ ~alive
        /\ pcRaft = "r_none"
        /\ pcIdx = "i_none"
        /\ constructed \cap {"app_thread_pool", "server_thread_pool"} = {}

\* C8, amended: with an empty node-list file startup aborts with exit(-1) on
\* the peering thread, after the worker pools, the peering thread and the
\* indexing thread have been started, and before the peering address is
\* resolved, the listener or the replication state is started, or an
\* iteration of the scheduler loop runs.
C8_AbortsOnPeeringThread ==
    StartupSawEmptyFile =>
        /\ ~alive
        /\ exitStatus = -1
        /\ pcRaft = "r_fetch_nodes"
        /\ pcIdx = "i_running"
        /\ {"app_thread_pool", "server_thread_pool"} \subseteq constructed
        /\ peering_endpoint = NoEndpoint
        /\ listener = "none"
    /\ listen_address = NoEndpoint
    /\ lastResolve = NoResolve
        /\ replication.state = "none"
        /\ calls = << >>

\* C8 witness: the process was ended by the empty node-list file.
C8_Witness == StartupSawEmptyFile /\ ~alive

\* The startup validation of run_server has failed.
ValidationFailed ==
    \/ dataDirExists = "no"
    \/ dataDirExists = "yes" /\ config.master # ""

\* C9: when the data directory does not exist or the deprecated master flag
\* is set, run_server has returned 1 with nothing constructed and no thread
\* started; with the directory present and the master flag empty the
\* validation lets startup proceed, whatever the search-only API key.
C9_ValidationFailureReturnsOne ==
    /\ ValidationFailed =>
          /\ pcMain = "m_returned"
          /\ ret_code = 1
          /\ constructed = {}
          /\ pcRaft = "r_none"
          /\ pcIdx = "i_none"
          /\ calls = << >>
    /\ (dataDirExists = "yes" /\ config.master = "") =>
          (pcMain = "m_returned" => pcRaft # "r_none")

\* C9 witness: run_server has returned 1 because of the master flag.
C9_Witness ==
    /\ pcMain = "m_returned"
    /\ ret_code = 1
    /\ dataDirExists = "yes"
    /\ config.master # ""

\* C10: fetch_nodes_config gives success with empty content for an empty
\* path; for a non-empty path an error about the missing file when the file
\* does not exist, a different error when the file is empty, and success
\* with exactly the content of a non-empty file.
C10_FetchNodesConfigTotal ==
    lastFetch.called =>
        LET path == lastFetch.path
            file == lastFetch.file
            op   == lastFetch.op
        IN  /\ path = "" => (op.ok /\ op.value = "")
            /\ (path # "" /\ ~file.exists) =>
                  /\ ~op.ok
                  /\ op.error =
                       <<"Error reading file containing nodes configuration: ",
                         "File does not exist at: ", path>>
            /\ (path # "" /\ file.exists /\ file.content = "") =>
                  /\ ~op.ok
                  /\ op.error =
                       <<"File containing nodes configuration is empty.">>
                  /\ \A p \in NodesPaths, f \in FileStates :
                        ~f.exists => fetch_nodes_config(p, f).error # op.error
            /\ (path # "" /\ file.exists /\ file.content # "") =>
                  (op.ok /\ op.value = file.content)

\* C10 witness: a periodic re-read found the file empty after the startup
\* read had found it non-empty.
C10_Witness ==
    /\ lastFetch.called
    /\ lastFetch.path # ""
    /\ lastFetch.file.exists
    /\ lastFetch.file.content = ""
    /\ ~lastFetch.op.ok
    /\ nodes_config_op # ""

(* ------------------------------------------------------------------ *)
(* Properties of get_internal_ip                                        *)
(* ------------------------------------------------------------------ *)

\* Bit k (1 the most significant) of the 32-bit address with text `text`.
Bit(text, k) == (text[((k - 1) \div 8) + 1] \div Pow2(7 - ((k - 1) % 8))) % 2

\* The address lies in the subnet net/n: their first n bits agree.
InSubnet(text, net, n) == \A k \in 1..n : Bit(text, k) = Bit(net, k)

\* The private ranges 10/8, 172.16/12 and 192.168/16.
PrivateRange(text) ==
    \/ InSubnet(text, <<10, 0, 0, 0>>, 8)
    \/ InSubnet(text, <<172, 16, 0, 0>>, 12)
    \/ InSubnet(text, <<192, 168, 0, 0>>, 16)

Loopback == <<127, 0, 0, 1>>

IsDottedQuad(text) == Len(text) = 4 /\ \A i \in 1..4 : text[i] \in 0..255

\* A subnet text that is a CIDR: an address, a slash, a prefix length 0..32.
ValidCidr(subnet_cidr) ==
    /\ Len(subnet_cidr) = 2
    /\ IsDottedQuad(subnet_cidr[1])
    /\ subnet_cidr[2].digits
    /\ subnet_cidr[2].value \in 0..32

\* The text of the address of interface i.
IfText(ifap, i) == <<ifap[i].addr[4], ifap[i].addr[3], ifap[i].addr[2],
                    ifap[i].addr[1]>>

\* The positions in `ifap` of the IPv4 interfaces with a private address.
PrivateAt(ifap) ==
    {i \in 1..Len(ifap) : /\ ifap[i].has_addr
                          /\ ifap[i].family = "AF_INET"
                          /\ PrivateRange(IfText(ifap, i))}

\* And of those inside the subnet.
InsideAt(ifap, subnet_cidr) ==
    {i \in PrivateAt(ifap) :
        InSubnet(IfText(ifap, i), subnet_cidr[1], subnet_cidr[2].value)}

Least(S) == CHOOSE i \in S : \A j \in S : i <= j

\* C11 as stated: for every valid CIDR constraint and every interface list,
\* get_internal_ip returns the first private address inside the subnet if
\* there is one, otherwise some private address of the list if there is one,
\* otherwise 127.0.0.1, and never an address that is neither private nor
\* loopback.
C11_FallsBackToUnconstrained ==
    (lastResolve.called /\ ValidCidr(lastResolve.subnet)) =>
        LET ifap   == lastResolve.ifap
            priv   == PrivateAt(ifap)
            inside == InsideAt(ifap, lastResolve.subnet)
            ip     == lastResolve.ip
        IN  /\ inside # {} => ip = IfText(ifap, Least(inside))
            /\ (inside = {} /\ priv # {}) =>
                  \E i \in priv : ip = IfText(ifap, i)
            /\ priv = {} => ip = Loopback
            /\ PrivateRange(ip) \/ ip = Loopback

\* The constraint of a valid CIDR is in force: its address is not 0.0.0.0
\* and its prefix length is not 0.
InForce(subnet_cidr) ==
    /\ subnet_cidr[1] # <<0, 0, 0, 0>>
    /\ subnet_cidr[2].value # 0

\* C11, amended: for every valid CIDR constraint and every interface list,
\* get_internal_ip returns the first private address inside the subnet if
\* there is one and 127.0.0.1 otherwise, also when the list has private
\* addresses outside the subnet; a constraint with address 0.0.0.0 or prefix
\* length 0 is not in force, and the first private address of the list is
\* returned, or 127.0.0.1 if there is none.  The result is never an address
\* that is neither private nor loopback.
C11_ConstrainedOrLoopback ==
    (lastResolve.called /\ ValidCidr(lastResolve.subnet)) =>
        LET ifap   == lastResolve.ifap
            priv   == PrivateAt(ifap)
            inside == InsideAt(ifap, lastResolve.subnet)
            ip     == lastResolve.ip
        IN  /\ IF InForce(lastResolve.subnet)
               THEN /\ inside # {} => ip = IfText(ifap, Least(inside))
                    /\ inside = {} => ip = Loopback
               ELSE /\ priv # {} => ip = IfText(ifap, Least(priv))
                    /\ priv = {} => ip = Loopback
            /\ PrivateRange(ip) \/ ip = Loopback

\* C11 witness: a valid constraint is in force, the list has a private
\* address but none inside the subnet, and the loopback address is returned.
C11_Witness ==
    /\ lastResolve.called
    /\ ValidCidr(lastResolve.subnet)
    /\ InForce(lastResolve.subnet)
    /\ PrivateAt(lastResolve.ifap) # {}
    /\ InsideAt(lastResolve.ifap, lastResolve.subnet) = {}
    /\ lastResolve.ip = Loopback

(* ------------------------------------------------------------------ *)
(* Properties of the bootstrap and the teardown                         *)
(* ------------------------------------------------------------------ *)

\* The configured peering address is not empty and str2ip has rejected it.
ParseFailed ==
    /\ config.peering_address # << >>
    /\ ~IsDottedQuad(config.peering_address)
    /\ pcRaft \notin {"r_none", "r_spawn_indexer", "r_fetch_nodes",
                      "r_resolve"}

\* C12: when an explicit, non-empty peering address fails to parse, startup
\* is fatal: the listener and the replication state are never started, the
\* scheduler loop never runs, and the process ends with a non-zero exit
\* status; run_server does not return 0.
C12_ParseFailureIsFatal ==
    ParseFailed =>
        /\ listener = "none"
        /\ replication.state = "none"
        /\ lastIter = NoIter
        /\ pcMain = "m_returned" => ret_code # 0

\* C13: when the service registration or the listener start fails, the
\* process is ended at once by exit(-1): the peering thread takes no further
\* step, the replication state is never started and no pass of the scheduler
\* loop ever runs.
C13_ListenerFailureExits ==
    listener \in {"add_failed", "start_failed"} =>
        /\ ~alive
        /\ exitStatus = -1
        /\ pcRaft \in {"r_add_service", "r_listener_start"}
        /\ replication.state = "none"
        /\ lastIter = NoIter
        /\ raft_counter = 0

\* C13 witness: raft_server.Start failed after the service was registered.
C13_Witness ==
    /\ listener = "start_failed"
    /\ listen_address = peering_endpoint
    /\ ~alive

\* C14: whenever run_server has returned after spawning the peering thread,
\* the indexing thread has ended and was joined by the peering thread, and
\* the peering thread has ended and was joined by the main thread.
C14_ThreadsJoinedAtReturn ==
    (pcMain = "m_returned" /\ pcRaft # "r_none") =>
        /\ pcIdx = "i_joined"
        /\ pcRaft = "r_done"
        /\ Count("batch_indexing_thread.join") = 1
        /\ Count("raft_thread.join") = 1
        /\ Pos("batch_indexing_thread.join") < Pos("raft_thread.join")

\* C14 witness: run_server has returned from a run with both threads.
C14_Witness ==
    /\ pcMain = "m_returned"
    /\ pcRaft = "r_done"
    /\ pcIdx = "i_joined"

\* What the orchestrator and its threads hold, the quit flag and the signal
\* disposition apart.
OrchestratorState ==
    <<config, alive, askedToQuit, mainVars, raftVars, pcIdx, exitStatus,
      server, indexerStop, calls>>

\* C15: the delivery of an interrupt changes nothing but quit_raft_service
\* and the signal's disposition: the first sets the flag and the disposition
\* to ignore and does no shutdown work, and every further one leaves the
\* flag, the disposition and all orchestrator state as they are.
C15_HandlerOnlySetsQuit ==
    [][signals' # signals =>
         /\ UNCHANGED OrchestratorState
         /\ signals = 0 => (quit_raft_service' /\ sigDisp' = "ignore")
         /\ signals > 0 => UNCHANGED <<quit_raft_service, sigDisp>>]_vars

\* C15 witness: a second interrupt was delivered while the teardown started
\* by the first was under way.
C15_Witness ==
    /\ signals = 2
    /\ sigDisp = "ignore"
    /\ quit_raft_service
    /\ Pos("replication_state.shutdown") # 0
    /\ pcRaft # "r_done"

MainTeardown ==
    <<"raft_thread.join", "delete batch_indexer", "curl_global_cleanup",
      "delete server", "collection_manager.dispose">>

IsMainCall(c) == \E i \in 1..Len(MainTeardown) : MainTeardown[i] = c

\* The teardown calls of the main thread, in the order they were made.
MainCalls == SelectSeq(calls, IsMainCall)

\* C16: the main thread's teardown is made in this order: join the peering
\* thread, delete the batch indexer, release the network library's global
\* state, delete the server, dispose the collection manager; and no delete
\* or dispose is made while the peering thread is running.
C16_MainTeardownOrder ==
    /\ IsPrefix(MainCalls, MainTeardown)
    /\ (\E i \in 2..Len(MainTeardown) : Pos(MainTeardown[i]) # 0) =>
          pcRaft = "r_done"

\* C16 witness: all five calls have been made.
C16_Witness == MainCalls = MainTeardown

TeardownCalls ==
    {"batch_indexer.stop", "server_thread_pool.shutdown",
     "app_thread_pool.shutdown", "server.stop", "replication_state.shutdown",
     "raft_server.Stop", "raft_server.Join"}

\* C17: on every run that spawned the peering thread and in which
\* run_server has returned, each of the seven teardown calls (indexer stop,
\* server pool shutdown, application pool shutdown, API server stop,
\* replication shutdown, listener stop, listener join) was made exactly
\* once.
C17_EachTeardownOnce ==
    (pcMain = "m_returned" /\ pcRaft # "r_none") =>
        \A c \in TeardownCalls : Count(c) = 1

\* C18: every pass through the loop body, one with a failed re-read
\* included, increments raft_counter by exactly one and sleeps once, so no
\* two passes run with the same counter value.
C18_EveryPassTicks ==
    [][BodyStep =>
         /\ raft_counter' = raft_counter + 1
         /\ lastIter'.inc
         /\ lastIter'.slept]_vars

\* The listener has been given an endpoint.
ListenerBound ==
    listener \in {"registered", "started", "start_failed", "stopped",
                  "joined"}

\* C19: the endpoint is resolved once, before the listener is registered or
\* started; the replication state is started only after registration and
\* listener start have succeeded; a maintenance pass runs only while the
\* replication state is started and not shut down; and the listener, the
\* replication start and every membership descriptor use the resolved
\* endpoint.
C19_BootstrapOrdered ==
    [][/\ peering_endpoint' # peering_endpoint =>
            /\ peering_endpoint = NoEndpoint
            /\ pcRaft = "r_resolve"
            /\ listener = "none"
       /\ ListenerBound' =>
            /\ peering_endpoint' # NoEndpoint
            /\ listen_address' = peering_endpoint'
       /\ replication'.state # "none" =>
            /\ listener' \in {"started", "stopped", "joined"}
            /\ replication'.membership.endpoint = peering_endpoint'
       /\ (lastIter' # lastIter /\ lastIter' # NoIter) =>
            /\ replication.state = "started"
            /\ replication'.state = "started"]_vars

\* C19 witness: the replication state, started on the resolved endpoint,
\* got a membership descriptor from a periodic re-read and has been shut
\* down, and the listener has been joined.
C19_Witness ==
    /\ replication.state = "shutdown"
    /\ listener = "joined"
    /\ nodes_config_op = NodesA
    /\ replication.membership.nodes = NodesB
    /\ replication.membership.endpoint = peering_endpoint
    /\ peering_endpoint # NoEndpoint

\* A subnet text that is a CIDR with a prefix length of 1..32.
WellFormed(subnet_cidr) ==
    ValidCidr(subnet_cidr) /\ subnet_cidr[2].value >= 1

\* C20: the subnet text is applied as a constraint only when it is a
\* well-formed CIDR with a prefix length of 1..32; any other text (not two
\* parts, an address that does not parse, a prefix that is not a number or
\* is above 32) means no constraint: the first private address is returned,
\* and the mask is only ever computed with a shift amount of 0..31.
C20_MalformedMeansNoConstraint ==
    lastResolve.called =>
        /\ lastResolve.shifts # {} => WellFormed(lastResolve.subnet)
        /\ \A sh \in lastResolve.shifts : sh[1] = 0 /\ sh[2] \in 0..31
        /\ ~WellFormed(lastResolve.subnet) =>
              LET priv == PrivateAt(lastResolve.ifap)
              IN  lastResolve.ip =
                     IF priv = {} THEN Loopback
                     ELSE IfText(lastResolve.ifap, Least(priv))

\* C21: in every interleaving the peering thread calls server->stop() only
\* after the main thread has entered server->run(): the server is never
\* stopped while the main thread is still between spawning the peering
\* thread and entering the run loop.
C21_StopOnlyAfterRunEntered ==
    server.stopped => pcMain # "m_start_api"

====
